---- MODULE Spec2Model ----
(***************************************************************************)
(* Model of roof_calc: the Roof variants (roof.py), the recursive SubRoof  *)
(* (sub_roof.py), the RoofFrame derivation (components.py) and the         *)
(* validation guards (validators.py).                                      *)
(*                                                                         *)
(* Numbers.  Every Python float is a fixed-point integer in units of       *)
(* 1/SCALE: a length of 1 cm is SCALE, so that the foot factor 30.48 is    *)
(* exact on whole feet (30.48 * 50 = 1524).  An area is a product of two   *)
(* lengths and is kept in units of 1/SCALE^2.  Quotients and square roots  *)
(* are truncated to that grid.  A ratio (height_ratio) is a plain integer. *)
(* An angle is in thousandths of a degree.                                 *)
(*                                                                         *)
(* Calls.  A call either returns or raises: a result is a record           *)
(* [st, v] whose st is "ok" or the name of the exception raised.           *)
(***************************************************************************)
EXTENDS Integers, Sequences, FiniteSets, TLC

VARIABLES roofs, subs, last

vars == <<roofs, subs, last>>

---------------------------------------------------------------------------
(* Fixed point *)

SCALE == 25 * 2

Fx(v) == v * SCALE

\* an attribute that has not been assigned / a parameter left at None
Unset == 0 - 1

Ok(v) == [st |-> "ok", v |-> v]

Raise(e) == [st |-> e, v |-> 0]

RECURSIVE ISqrtIn(_, _, _)
ISqrtIn(n, lo, hi) ==
    IF lo >= hi THEN lo
    ELSE LET mid == (lo + hi + 1) \div 2
         IN  IF mid * mid <= n THEN ISqrtIn(n, mid, hi) ELSE ISqrtIn(n, lo, mid - 1)

\* math.sqrt on the grid: the largest r with r*r <= n (n >= 0, n < 2^31)
ISqrt(n) == ISqrtIn(n, 0, 46340)

\* math.hypot
Hypot(a, b) == ISqrt(a * a + b * b)

\* math.floor(a / b), b > 0
FloorDiv(a, b) == a \div b

\* math.ceil(a / b), b > 0
CeilDiv(a, b) == 0 - ((0 - a) \div b)

\* 1000 * tan(d degrees), d = 0 .. 89
TanTable ==
    << 0, 17, 35, 52, 70, 87, 105, 123, 141, 158, 176, 194, 213, 231, 249,
       268, 287, 306, 325, 344, 364, 384, 404, 424, 445, 466, 488, 510, 532,
       554, 577, 601, 625, 649, 675, 700, 727, 754, 781, 810, 839, 869, 900,
       933, 966, 1000, 1036, 1072, 1111, 1150, 1192, 1235, 1280, 1327, 1376,
       1428, 1483, 1540, 1600, 1664, 1732, 1804, 1881, 1963, 2050, 2145, 2246,
       2356, 2475, 2605, 2747, 2904, 3078, 3271, 3487, 3732, 4011, 4331, 4705,
       5145, 5671, 6314, 7115, 8144, 9514, 11430, 14301, 19081, 28636, 57290 >>

TanAt(d) == TanTable[d + 1]

\* math.tan(math.radians(a)) in thousandths, a in thousandths of a degree,
\* 0 <= a < 89000, linear between whole degrees
TanMilli(a) ==
    LET d == a \div 1000
        f == a % 1000
    IN  TanAt(d) + ((TanAt(d + 1) - TanAt(d)) * f) \div 1000

\* math.degrees(math.atan(t / 1000)) in thousandths of a degree, 0 <= t < 57290
AtanMilli(t) ==
    LET d == CHOOSE k \in 0..88 : TanAt(k) <= t /\ t < TanAt(k + 1)
    IN  d * 1000 + ((t - TanAt(d)) * 1000) \div (TanAt(d + 1) - TanAt(d))

---------------------------------------------------------------------------
(* miscellenous.py, utils.py, validators.py *)

Units == {"cm", "m", "ft"}

CM_TO_M == 100

\* CM_TO_F = 30.48, times 100
CM_TO_F_x100 == 3048

\* utils.convert_to_cm(value, unit)
convert_to_cm(value, unit) ==
    IF unit = "m" THEN value * CM_TO_M
    ELSE IF unit = "ft" THEN (value * CM_TO_F_x100) \div 100
    ELSE value

\* validators.validate_positive: the exception raised, or "ok"
validate_positive(value) ==
    IF value <= 0 THEN "InvalidDimensionsError" ELSE "ok"

PITCH_MIN == 10

PITCH_MAX == 60

\* validators.validate_pitch_degrees, pitch in thousandths of a degree
validate_pitch_degrees(pitch_deg) ==
    IF ~(PITCH_MIN * 1000 <= pitch_deg /\ pitch_deg <= PITCH_MAX * 1000)
    THEN "InvalidPitchError" ELSE "ok"

\* validators.validate_unit
validate_unit(unit) ==
    IF unit \notin Units THEN "ValueError" ELSE "ok"


SHEET_LENGTH_MIN == 50

SHEET_LENGTH_MAX == 500

\* validators.validate_sheet_size; sheet = [length, width]
validate_sheet_size(sheet) ==
    IF sheet.length <= 0 \/ sheet.width <= 0 THEN "InvalidSheetSizeError"
    ELSE IF sheet.length < Fx(SHEET_LENGTH_MIN) \/ sheet.length > Fx(SHEET_LENGTH_MAX)
         THEN "InvalidSheetSizeError"
    ELSE IF sheet.length < sheet.width THEN "InvalidSheetSizeError"
    ELSE "ok"

\* validators.validate_sheet_overup; overup = [left_right_overup, top_bottom_overup]
validate_sheet_overup(overup) ==
    IF overup.left_right_overup <= 0 \/ overup.top_bottom_overup <= 0
    THEN "InvalidSheetOverupError" ELSE "ok"

\* miscellenous.SheetSize.area
SheetSize_area(sheet) == sheet.length * sheet.width

---------------------------------------------------------------------------
(* roof.py: Roof and its variants.  An object is a record of its           *)
(* attributes; an attribute not yet assigned is "unset" / Unset.           *)

RoofClasses == {"HipRoof", "GableRoof", "FlatRoof"}

\* the object handed to __init__: no instance attribute assigned yet
NewObject(cls) ==
    [ cls                   |-> cls,
      unit                  |-> "unset",
      building_length       |-> Unset,
      building_width        |-> Unset,
      sub_roofs_attached    |-> << >>,
      roof_overhang         |-> Unset,
      height_ratio          |-> Unset,
      side_extension_length |-> Unset,
      flat_roof_rise        |-> Unset,
      pitch_deg             |-> Unset,
      pitch_rise            |-> Unset ]

\* Roof._convert_to_cm: reads self.unit
Roof_convert_to_cm(self, value) ==
    IF self.unit = "unset" THEN Raise("AttributeError")
    ELSE IF self.unit = "m" THEN Ok(value * CM_TO_M)
    ELSE IF self.unit = "ft" THEN Ok((value * CM_TO_F_x100) \div 100)
    ELSE Ok(value)

\* Roof.__init__ on the object self
Roof_init(self, building_length, building_width, sub_roofs_attached, unit) ==
    IF validate_positive(building_length) # "ok" THEN Raise("InvalidDimensionsError")
    ELSE IF validate_positive(building_width) # "ok" THEN Raise("InvalidDimensionsError")
    ELSE IF validate_unit(unit) # "ok" THEN Raise("ValueError")
    ELSE LET s1 == [self EXCEPT !.unit = unit]
         IN  Ok([s1 EXCEPT !.building_length = Roof_convert_to_cm(s1, building_length).v,
                           !.building_width = Roof_convert_to_cm(s1, building_width).v,
                           !.sub_roofs_attached = sub_roofs_attached])

\* HipRoof.__init__
HipRoof_init(building_length, building_width, sub_roofs_attached, roof_overhang, height_ratio, unit) ==
    LET r == Roof_init(NewObject("HipRoof"), building_length, building_width,
                       sub_roofs_attached, unit)
    IN  IF r.st # "ok" THEN r
        ELSE IF validate_positive(roof_overhang) # "ok" THEN Raise("InvalidDimensionsError")
        ELSE IF validate_positive(height_ratio) # "ok" THEN Raise("InvalidDimensionsError")
        ELSE LET c == Roof_convert_to_cm(r.v, roof_overhang)
             IN  IF c.st # "ok" THEN c
                 ELSE Ok([r.v EXCEPT !.roof_overhang = c.v,
                                     !.height_ratio = height_ratio])

\* GableRoof.__init__: the conversions come before super().__init__
GableRoof_init(building_length, building_width, sub_roofs_attached, side_extension_length, height_ratio, roof_overhang, unit) ==
    LET self == NewObject("GableRoof")
    IN  IF validate_positive(side_extension_length) # "ok" THEN Raise("InvalidDimensionsError")
        ELSE IF validate_positive(height_ratio) # "ok" THEN Raise("InvalidDimensionsError")
        ELSE IF validate_positive(roof_overhang) # "ok" THEN Raise("InvalidDimensionsError")
        ELSE LET e == Roof_convert_to_cm(self, side_extension_length)
                 o == Roof_convert_to_cm(self, roof_overhang)
             IN  IF e.st # "ok" THEN e
                 ELSE IF o.st # "ok" THEN o
                 ELSE Roof_init([self EXCEPT !.side_extension_length = e.v,
                                             !.height_ratio = height_ratio,
                                             !.roof_overhang = o.v],
                                building_length, building_width, sub_roofs_attached, unit)

\* FlatRoof.__init__: the conversions come before super().__init__
FlatRoof_init(building_length, building_width, sub_roofs_attached, flat_roof_rise, roof_overhang, unit) ==
    LET self == NewObject("FlatRoof")
    IN  IF validate_positive(flat_roof_rise) # "ok" THEN Raise("InvalidDimensionsError")
        ELSE IF validate_positive(roof_overhang) # "ok" THEN Raise("InvalidDimensionsError")
        ELSE LET f == Roof_convert_to_cm(self, flat_roof_rise)
                 o == Roof_convert_to_cm(self, roof_overhang)
             IN  IF f.st # "ok" THEN f
                 ELSE IF o.st # "ok" THEN o
                 ELSE Roof_init([self EXCEPT !.flat_roof_rise = f.v,
                                             !.roof_overhang = o.v],
                                building_length, building_width, sub_roofs_attached, unit)

\* RoofType
RoofTypes == {"HIP", "GABLE", "FLAT"}

\* {k: v for k, v in kwargs.items() if k in allowed}
Filtered(kwargs, allowed) == [k \in (DOMAIN kwargs) \cap allowed |-> kwargs[k]]

\* the value bound to parameter k: the keyword argument, else the default
Arg(filtered, k, default) == IF k \in DOMAIN filtered THEN filtered[k] ELSE default

\* RoofFactory.create_roof
RoofFactory_create_roof(roof_type, building_length, building_width, unit, kwargs) ==
    IF roof_type = "HIP"
    THEN LET filtered == Filtered(kwargs, {"roof_overhang", "height_ratio", "sub_roofs_attached"})
         IN  HipRoof_init(building_length, building_width,
                          Arg(filtered, "sub_roofs_attached", << >>),
                          Arg(filtered, "roof_overhang", Fx(60)),
                          Arg(filtered, "height_ratio", 3), unit)
    ELSE IF roof_type = "GABLE"
    THEN LET filtered == Filtered(kwargs, {"side_extension_length", "roof_overhang",
                                           "height_ratio", "sub_roofs_attached"})
         IN  GableRoof_init(building_length, building_width,
                            Arg(filtered, "sub_roofs_attached", << >>),
                            Arg(filtered, "side_extension_length", Fx(30)),
                            Arg(filtered, "height_ratio", 3),
                            Arg(filtered, "roof_overhang", Fx(60)), unit)
    ELSE IF roof_type = "FLAT"
    THEN LET filtered == Filtered(kwargs, {"flat_roof_rise", "roof_overhang",
                                           "sub_roofs_attached"})
         IN  FlatRoof_init(building_length, building_width,
                           Arg(filtered, "sub_roofs_attached", << >>),
                           Arg(filtered, "flat_roof_rise", Fx(10)),
                           Arg(filtered, "roof_overhang", Fx(60)), unit)
    ELSE Raise("ValueError")

\* The explicit pitch of a roof (degrees, or a PitchRatio rise over run):
\* checked and kept once the variant's __init__ has returned.
Roof_explicit_pitch(r, pitch_deg, pitch_rise) ==
    IF r.st # "ok" THEN r
    ELSE IF pitch_deg # Unset /\ validate_pitch_degrees(pitch_deg) # "ok"
         THEN Raise("InvalidPitchError")
    ELSE Ok([r.v EXCEPT !.pitch_deg = pitch_deg, !.pitch_rise = pitch_rise])

\* The attributes of an instance of each variant, as its __init__ assigns them
HipRoofObject(L, W, O, ratio, unit) ==
    [NewObject("HipRoof") EXCEPT
        !.unit = unit,
        !.building_length = convert_to_cm(L, unit),
        !.building_width = convert_to_cm(W, unit),
        !.roof_overhang = convert_to_cm(O, unit),
        !.height_ratio = ratio]

GableRoofObject(L, W, ext, ratio, O, unit) ==
    [NewObject("GableRoof") EXCEPT
        !.unit = unit,
        !.building_length = convert_to_cm(L, unit),
        !.building_width = convert_to_cm(W, unit),
        !.side_extension_length = convert_to_cm(ext, unit),
        !.roof_overhang = convert_to_cm(O, unit),
        !.height_ratio = ratio]

FlatRoofObject(L, W, rise, O, unit) ==
    [NewObject("FlatRoof") EXCEPT
        !.unit = unit,
        !.building_length = convert_to_cm(L, unit),
        !.building_width = convert_to_cm(W, unit),
        !.flat_roof_rise = convert_to_cm(rise, unit),
        !.roof_overhang = convert_to_cm(O, unit)]

\* Roof.roof_half_span
Roof_roof_half_span(self) == self.building_width \div 2

\* HipRoof.roof_overhang, GableRoof.roof_overhang, FlatRoof.roof_overhang
Roof_roof_overhang(self) == self.roof_overhang

\* HipRoof.roof_height, GableRoof.roof_height
Sloped_roof_height(self) == self.building_width \div self.height_ratio

\* FlatRoof.roof_height: the user-supplied rise
FlatRoof_roof_height(self) == self.flat_roof_rise

Roof_roof_height(self) ==
    IF self.cls = "FlatRoof" THEN FlatRoof_roof_height(self) ELSE Sloped_roof_height(self)

\* the diagonal height without the FlatRoof check
Roof_get_roof_diagonal_height_any(self) ==
    Ok(Hypot(Roof_roof_height(self), Roof_roof_half_span(self)) + Roof_roof_overhang(self))

\* Roof.__roof_diagonal_height / Roof._get_roof_diagonal_height
Roof_get_roof_diagonal_height(self) ==
    IF self.cls = "FlatRoof" THEN Raise("NotImplementedError")
    ELSE Ok(Hypot(Sloped_roof_height(self), Roof_roof_half_span(self))
            + Roof_roof_overhang(self))

PITCH_RUN == 12

\* PitchRatio.degrees: arctangent(rise / run)
PitchRatio_degrees(rise) == AtanMilli((rise * 1000) \div PITCH_RUN)

\* roof_pitch_angle_degrees that looks at the degrees before the ratio
Roof_roof_pitch_angle_degrees_swapped(self) ==
    IF self.pitch_deg # Unset THEN self.pitch_deg
    ELSE IF self.pitch_rise # Unset THEN PitchRatio_degrees(self.pitch_rise)
    ELSE AtanMilli((Roof_roof_height(self) * 1000) \div Roof_roof_half_span(self))

\* Roof.roof_pitch_angle_degrees: ratio, else degrees, else derived
Roof_roof_pitch_angle_degrees(self) ==
    IF self.pitch_rise # Unset THEN PitchRatio_degrees(self.pitch_rise)
    ELSE IF self.pitch_deg # Unset THEN self.pitch_deg
    ELSE AtanMilli((Roof_roof_height(self) * 1000) \div Roof_roof_half_span(self))


\* HipRoof.hip_rafter_length (roof.py; it overrides the mixin's)
HipRoof_hip_rafter_length(self) ==
    ISqrt(Sloped_roof_height(self) * Sloped_roof_height(self)
          + (self.building_width \div 2) * (self.building_width \div 2))

\* HipRoof.roof_area: math.sqrt raises ValueError on a negative argument
HipRoof_roof_area(self) ==
    LET hip_rafter_length == HipRoof_hip_rafter_length(self)
        slope_height == Roof_get_roof_diagonal_height(self).v
        radicand == hip_rafter_length * hip_rafter_length - slope_height * slope_height
        base == ISqrt(radicand)
        ridge_length == self.building_length - self.building_width
        facial_length == 2 * base + ridge_length
        trapezoid_area == (ridge_length + facial_length) * slope_height
        triangle_area == (base * slope_height) * 2
    IN  IF radicand < 0 THEN Raise("ValueError")
        ELSE Ok(trapezoid_area + triangle_area)

\* GableRoof.roof_area
GableRoof_roof_area(self) ==
    LET roof_length == self.building_length + (self.side_extension_length * 2)
        roof_width == Roof_get_roof_diagonal_height(self).v
    IN  Ok(2 * (roof_length * roof_width))

\* FlatRoof.roof_area
FlatRoof_roof_area(self) ==
    LET slope_length == Hypot(self.building_width + 2 * self.roof_overhang,
                              self.flat_roof_rise)
    IN  Ok(slope_length * self.building_length)

\* self.roof_area(), by the class of self
Roof_roof_area(self) ==
    IF self.cls = "HipRoof" THEN HipRoof_roof_area(self)
    ELSE IF self.cls = "GableRoof" THEN GableRoof_roof_area(self)
    ELSE FlatRoof_roof_area(self)

\* trusses_count that rounds the quotient up instead of floor + 1
Roof_trusses_count_ceil(self, truss_spacing) ==
    IF validate_positive(truss_spacing) # "ok" THEN Raise("InvalidDimensionsError")
    ELSE Ok(CeilDiv(self.building_length, truss_spacing))

\* trusses_count that spans the ridge of a HipRoof
Roof_trusses_count_ridge(self, truss_spacing) ==
    IF validate_positive(truss_spacing) # "ok" THEN Raise("InvalidDimensionsError")
    ELSE IF self.cls = "HipRoof"
         THEN Ok(FloorDiv(self.building_length - self.building_width, truss_spacing) + 1)
    ELSE Ok(FloorDiv(self.building_length, truss_spacing) + 1)

\* Roof.trusses_count
Roof_trusses_count(self, truss_spacing) ==
    IF validate_positive(truss_spacing) # "ok" THEN Raise("InvalidDimensionsError")
    ELSE Ok(FloorDiv(self.building_length, truss_spacing) + 1)

\* Roof.purlin_lines_count
Roof_purlin_lines_count(self, purlin_spacing) ==
    IF validate_positive(purlin_spacing) # "ok" THEN Raise("InvalidDimensionsError")
    ELSE LET d == Roof_get_roof_diagonal_height(self)
         IN  IF d.st # "ok" THEN d ELSE Ok(CeilDiv(d.v, purlin_spacing))

\* Roof.iron_sheets_count; waste_percent is waste_tenths / 10
Roof_iron_sheets_count(self, sheet_size, waste_tenths) ==
    IF validate_sheet_size(sheet_size) # "ok" THEN Raise("InvalidSheetSizeError")
    ELSE IF waste_tenths < 0 THEN Raise("ValueError")
    ELSE LET sheet_area == SheetSize_area(sheet_size)
             area == Roof_roof_area(self)
         IN  IF area.st # "ok" THEN area
             ELSE Ok(CeilDiv(area.v * (10 + waste_tenths), 10 * sheet_area))

\* Roof.ridge_cover_count
Roof_ridge_cover_count(self, cover_length) ==
    IF validate_positive(cover_length) # "ok" THEN Raise("InvalidDimensionsError")
    ELSE IF self.cls = "FlatRoof" THEN Ok(0)
    ELSE Ok(CeilDiv(self.building_length + 2 * Roof_roof_overhang(self), cover_length))

---------------------------------------------------------------------------
(* sub_roof.py: SubRoof, HipSubRoof, GableSubRoof.  The sub-roofs live in  *)
(* a heap (a sequence); a reference is [k, i]: None, roof i or sub-roof i. *)

SubRoofClasses == {"HipSubRoof", "GableSubRoof"}

NoneRef == [k |-> "none", i |-> 0]

RoofRef(i) == [k |-> "roof", i |-> i]

SubRef(i) == [k |-> "sub", i |-> i]

Range(seq) == {seq[i] : i \in DOMAIN seq}

\* obj.__class__.__name__ of the object a reference names
ClassName(rfs, heap, ref) ==
    IF ref.k = "none" THEN "NoneType"
    ELSE IF ref.k = "roof" THEN rfs[ref.i].cls
    ELSE heap[ref.i].cls

RECURSIVE roof_pitch_angle_degrees(_, _, _)
\* ref.roof_pitch_angle_degrees: None has no such attribute; a Roof answers
\* itself; a SubRoof reads it from its own parent, up to the root
roof_pitch_angle_degrees(rfs, heap, ref) ==
    IF ref.k = "none" THEN Raise("AttributeError")
    ELSE IF ref.k = "roof" THEN Ok(Roof_roof_pitch_angle_degrees(rfs[ref.i]))
    ELSE roof_pitch_angle_degrees(rfs, heap, heap[ref.i].parent)

\* SubRoof.roof_half_span
SubRoof_roof_half_span(self) == self.section_length \div 2

\* SubRoof.pitch_rise_run, in thousandths
SubRoof_pitch_rise_run(rfs, heap, self) ==
    LET roof_pitch == roof_pitch_angle_degrees(rfs, heap, self.parent)
    IN  IF roof_pitch.st # "ok" THEN roof_pitch ELSE Ok(TanMilli(roof_pitch.v))

\* SubRoof.slope_height
SubRoof_slope_height(rfs, heap, self) ==
    LET p == SubRoof_pitch_rise_run(rfs, heap, self)
        rise == (p.v * SubRoof_roof_half_span(self)) \div 1000
    IN  IF p.st # "ok" THEN p ELSE Ok(Hypot(rise, self.width \div 2))

\* the own sloped area of one section: 2 * slope_height * section_length
SubRoof_main_area(rfs, heap, self) ==
    LET s == SubRoof_slope_height(rfs, heap, self)
    IN  IF s.st # "ok" THEN s ELSE Ok(2 * s.v * self.section_length)

\* sum(results of the calls, in order): the first exception ends it
SumResults(results) ==
    LET acc[k \in 0..Len(results)] ==
            IF k = 0 THEN Ok(0)
            ELSE IF acc[k - 1].st # "ok" THEN acc[k - 1]
            ELSE IF results[k].st # "ok" THEN results[k]
            ELSE Ok(acc[k - 1].v + results[k].v)
    IN  acc[Len(results)]

RECURSIVE SubRoof_roof_area(_, _, _)
\* SubRoof.roof_area: this section and its children
SubRoof_roof_area(rfs, heap, self) ==
    LET main_area == SubRoof_main_area(rfs, heap, self)
        sub_areas == SumResults([k \in DOMAIN self.sub_roofs_attached |->
                         SubRoof_roof_area(rfs, heap, heap[self.sub_roofs_attached[k]])])
    IN  IF main_area.st # "ok" THEN main_area
        ELSE IF sub_areas.st # "ok" THEN sub_areas
        ELSE Ok(main_area.v + sub_areas.v)

\* collective_roof_area that forgets the children of the attached sub-roofs
Roof_collective_roof_area_flat(rfs, heap, self) ==
    LET main_area == Roof_roof_area(self)
        sub_areas == SumResults([k \in DOMAIN self.sub_roofs_attached |->
                         SubRoof_main_area(rfs, heap, heap[self.sub_roofs_attached[k]])])
    IN  IF main_area.st # "ok" THEN main_area
        ELSE IF sub_areas.st # "ok" THEN sub_areas
        ELSE Ok(main_area.v + sub_areas.v)

\* Roof.collective_roof_area
Roof_collective_roof_area(rfs, heap, self) ==
    LET main_area == Roof_roof_area(self)
        sub_areas == SumResults([k \in DOMAIN self.sub_roofs_attached |->
                         SubRoof_roof_area(rfs, heap, heap[self.sub_roofs_attached[k]])])
    IN  IF main_area.st # "ok" THEN main_area
        ELSE IF sub_areas.st # "ok" THEN sub_areas
        ELSE Ok(main_area.v + sub_areas.v)

\* SubRoof.__post_init__ of a new object with the given dataclass fields.
\* The result is [st, heap]: on return the object is appended to the heap;
\* when the FlatRoof check raises, the children already name it as parent,
\* so it stays in the heap (built = FALSE) if it has any.
SubRoof_post_init(rfs, heap, cls, section_length, width, unit, children, parent) ==
    LET id == Len(heap) + 1
        self0 == [ cls |-> cls, section_length |-> section_length, width |-> width,
                   unit |-> unit, length0 |-> width, roof_pitch_ratio |-> Unset,
                   sub_roofs_attached |-> children, parent |-> parent,
                   built |-> FALSE ]
        self1 == [self0 EXCEPT !.section_length = convert_to_cm(section_length, unit),
                               !.width = convert_to_cm(width, unit)]
        p == SubRoof_pitch_rise_run(rfs, heap, self1)
        self2 == [self1 EXCEPT !.roof_pitch_ratio = p.v]
        stamped == [i \in 1..Len(heap) |->
                       IF i \in Range(children)
                       THEN [heap[i] EXCEPT !.parent = SubRef(id)] ELSE heap[i]]
    IN  IF validate_positive(section_length) # "ok"
        THEN [st |-> "InvalidDimensionsError", heap |-> heap]
        ELSE IF validate_positive(width) # "ok"
        THEN [st |-> "InvalidDimensionsError", heap |-> heap]
        ELSE IF p.st # "ok" THEN [st |-> p.st, heap |-> heap]
        ELSE IF ClassName(rfs, heap, parent) = "FlatRoof"
        THEN [st |-> "NotImplementedError",
              heap |-> IF children = << >> THEN heap ELSE Append(stamped, self2)]
        ELSE [st |-> "ok", heap |-> Append(stamped, [self2 EXCEPT !.built = TRUE])]


---------------------------------------------------------------------------
(* mixin.py: HipRoofMixin over a host [present, roof_half_span, roof_overhang,
   roof_height]; present is the set of attributes the host has *)

\* a value returned, and AttributeError("Missing required attribute: '<attr>' in ...")
Got(v) == [st |-> "ok", v |-> v, attr |-> ""]

Missing(attr_name) == [st |-> "AttributeError", v |-> 0, attr |-> attr_name]

\* a _get_attr that reads 0 for an attribute the host lacks
HipRoofMixin_get_attr_lenient(self, attr_name) ==
    IF attr_name \notin self.present THEN Got(0) ELSE Got(self[attr_name])

\* HipRoofMixin._get_attr
HipRoofMixin_get_attr(self, attr_name) ==
    IF attr_name \notin self.present THEN Missing(attr_name) ELSE Got(self[attr_name])

\* HipRoofMixin.corner_tiebeam_length
HipRoofMixin_corner_tiebeam_length(self) ==
    LET half_span == HipRoofMixin_get_attr(self, "roof_half_span")
    IN  IF half_span.st # "ok" THEN half_span ELSE Got(Hypot(half_span.v, half_span.v))

\* HipRoofMixin.hip_rafter_overhang
HipRoofMixin_hip_rafter_overhang(self) ==
    LET overhang == HipRoofMixin_get_attr(self, "roof_overhang")
    IN  IF overhang.st # "ok" THEN overhang ELSE Got(Hypot(overhang.v, overhang.v))

\* HipRoofMixin.hip_rafter_length
HipRoofMixin_hip_rafter_length(self) ==
    LET tiebeam == HipRoofMixin_corner_tiebeam_length(self)
        height == HipRoofMixin_get_attr(self, "roof_height")
        overhang == HipRoofMixin_get_attr(self, "roof_overhang")
    IN  IF tiebeam.st # "ok" THEN tiebeam
        ELSE IF height.st # "ok" THEN height
        ELSE IF overhang.st # "ok" THEN overhang
        ELSE Got(Hypot(tiebeam.v, height.v) + overhang.v)

\* HipRoofMixin.facial_base_length
HipRoofMixin_facial_base_length(self) ==
    LET half_span == HipRoofMixin_get_attr(self, "roof_half_span")
        overhang == HipRoofMixin_get_attr(self, "roof_overhang")
    IN  IF half_span.st # "ok" THEN half_span
        ELSE IF overhang.st # "ok" THEN overhang
        ELSE Got(2 * (half_span.v + overhang.v))

\* HipRoofMixin.triangular_facial_area
HipRoofMixin_triangular_facial_area(self) ==
    LET base == HipRoofMixin_facial_base_length(self)
        height == HipRoofMixin_get_attr(self, "roof_height")
    IN  IF base.st # "ok" THEN base
        ELSE IF height.st # "ok" THEN height
        ELSE Got(base.v * height.v)

\* the derived quantities of the mixin
MixinQuantities ==
    {"corner_tiebeam_length", "hip_rafter_overhang", "hip_rafter_length",
     "triangular_facial_area", "facial_base_length"}

\* getattr(host, quantity)
HipRoofMixin_read(self, quantity) ==
    IF quantity = "corner_tiebeam_length" THEN HipRoofMixin_corner_tiebeam_length(self)
    ELSE IF quantity = "hip_rafter_overhang" THEN HipRoofMixin_hip_rafter_overhang(self)
    ELSE IF quantity = "hip_rafter_length" THEN HipRoofMixin_hip_rafter_length(self)
    ELSE IF quantity = "triangular_facial_area" THEN HipRoofMixin_triangular_facial_area(self)
    ELSE HipRoofMixin_facial_base_length(self)

---------------------------------------------------------------------------
(* components.py: SheetCover and RoofFrame *)

\* SheetCover.__post_init__; the cover is [sheet_size, cover_overup]
SheetCover_post_init(sheet_size, cover_overup) ==
    IF validate_sheet_size(sheet_size) # "ok" THEN Raise("InvalidSheetSizeError")
    ELSE IF validate_sheet_overup(cover_overup) # "ok" THEN Raise("InvalidSheetOverupError")
    ELSE Ok([sheet_size |-> sheet_size, cover_overup |-> cover_overup])

\* SheetCover.sheet_area
SheetCover_sheet_area(self) ==
    LET effective_length == self.sheet_size.length - self.cover_overup.left_right_overup
        effective_width == self.sheet_size.width - self.cover_overup.top_bottom_overup
    IN  effective_length * effective_width

\* Roof.slope_height: hypot(roof_height, roof_half_span) + overhang, not for Flat
Roof_slope_height(self) == Roof_get_roof_diagonal_height(self)

\* Roof.roof_pitch_ratio, in thousandths: the explicit ratio, else tan(angle)
Roof_roof_pitch_ratio(self) ==
    IF self.pitch_rise # Unset THEN (self.pitch_rise * 1000) \div PITCH_RUN
    ELSE TanMilli(Roof_roof_pitch_angle_degrees(self))

\* Roof._length: the building length
Roof_length(self) == self.building_length

RECURSIVE host_roof_overhang(_, _, _)
\* ref.roof_overhang: SubRoof.roof_overhang is its parent's
host_roof_overhang(rfs, heap, ref) ==
    IF ref.k = "none" THEN Raise("AttributeError")
    ELSE IF ref.k = "roof" THEN Ok(Roof_roof_overhang(rfs[ref.i]))
    ELSE host_roof_overhang(rfs, heap, heap[ref.i].parent)

\* SubRoof.roof_height
SubRoof_roof_height(rfs, heap, self) ==
    LET p == SubRoof_pitch_rise_run(rfs, heap, self)
    IN  IF p.st # "ok" THEN p ELSE Ok((p.v * SubRoof_roof_half_span(self)) \div 1000)

\* RoofFrame.__post_init__ over the roof or sub-roof that ref names
RoofFrame_post_init(rfs, heap, ref, truss_spacing, purlin_spacing, unit) ==
    LET isRoof == ref.k = "roof"
        half_span == IF isRoof THEN Roof_roof_half_span(rfs[ref.i])
                     ELSE SubRoof_roof_half_span(heap[ref.i])
        overhang == host_roof_overhang(rfs, heap, ref)
        rise == IF isRoof THEN Ok(Roof_roof_height(rfs[ref.i]))
                ELSE SubRoof_roof_height(rfs, heap, heap[ref.i])
        pitch == IF isRoof THEN Roof_roof_pitch_ratio(rfs[ref.i])
                 ELSE heap[ref.i].roof_pitch_ratio
        slope_height == IF isRoof THEN Roof_slope_height(rfs[ref.i])
                        ELSE SubRoof_slope_height(rfs, heap, heap[ref.i])
    IN  IF validate_positive(truss_spacing) # "ok" THEN Raise("InvalidDimensionsError")
        ELSE IF validate_positive(purlin_spacing) # "ok" THEN Raise("InvalidDimensionsError")
        ELSE IF overhang.st # "ok" THEN overhang
        ELSE IF rise.st # "ok" THEN rise
        ELSE IF slope_height.st # "ok" THEN slope_height
        ELSE Ok([ roof |-> ref,
                  truss_spacing |-> convert_to_cm(truss_spacing, unit),
                  purlin_spacing |-> convert_to_cm(purlin_spacing, unit),
                  unit |-> unit,
                  half_span |-> half_span,
                  overhang |-> overhang.v,
                  rise |-> rise.v,
                  pitch |-> pitch,
                  slope_height |-> slope_height.v,
                  is_gable |-> ClassName(rfs, heap, ref)
                                 \in {"GableRoof", "FlatRoof", "GableSubRoof"} ])

\* RoofFrame.main_trusses_count
RoofFrame_main_trusses_count(rfs, heap, self) ==
    LET length == IF self.roof.k = "roof" THEN Roof_length(rfs[self.roof.i])
                  ELSE heap[self.roof.i].length0
    IN  FloorDiv(length, self.truss_spacing) + 1

\* FlatRoof.slope_length: hypot(building_width, flat_roof_rise) + overhang
FlatRoof_slope_length(self) ==
    Hypot(self.building_width, self.flat_roof_rise) + self.roof_overhang

\* Roof._ridge_length of a HipRoof: building_length - building_width
Roof_ridge_length(self) == self.building_length - self.building_width

\* isinstance(self.roof, SubRoof), isinstance(self.roof, FlatRoof)
IsSubRoof(ref) == ref.k = "sub"

IsFlatRoof(rfs, heap, ref) == ClassName(rfs, heap, ref) = "FlatRoof"

\* a property that returns v (a number or a list), or None
ListResult(v) == [st |-> "ok", none |-> FALSE, v |-> v]

NoneResult == [st |-> "ok", none |-> TRUE, v |-> << >>]

\* PurlinMixin.purlin_lines_count
PurlinMixin_purlin_lines_count(rfs, heap, self) ==
    LET slope_length ==
            IF IsFlatRoof(rfs, heap, self.roof) THEN Ok(FlatRoof_slope_length(rfs[self.roof.i]))
            ELSE IF IsSubRoof(self.roof) THEN SubRoof_slope_height(rfs, heap, heap[self.roof.i])
            ELSE Roof_slope_height(rfs[self.roof.i])
    IN  IF slope_length.st # "ok" THEN slope_length
        ELSE Ok(CeilDiv(slope_length.v, self.purlin_spacing))

\* purlin levels whose loop also takes the step that lands on h
PurlinLevels_inclusive(h, spacing) == FloorDiv(h, spacing)

\* the purlin levels above the eaves: current_height runs over the multiples
\* of spacing while current_height + spacing < h
PurlinLevels(h, spacing) == IF h <= spacing THEN 0 ELSE CeilDiv(h, spacing) - 1

\* a triangular_face_purlins that steps up to the rise of the roof
PurlinMixin_triangular_face_purlins_rise(self) ==
    IF self.is_gable THEN NoneResult
    ELSE LET h == self.rise
             tr_base == (self.half_span + self.overhang) * 2
         IN  ListResult(<<tr_base>> \o
                 [k \in 1..PurlinLevels(h, self.purlin_spacing) |->
                     FloorDiv(tr_base * (h - k * self.purlin_spacing), h)])

\* PurlinMixin.triangular_face_purlins
PurlinMixin_triangular_face_purlins(self) ==
    IF self.is_gable THEN NoneResult
    ELSE LET h == self.slope_height
             tr_base == (self.half_span + self.overhang) * 2
         IN  ListResult(<<tr_base>> \o
                 [k \in 1..PurlinLevels(h, self.purlin_spacing) |->
                     FloorDiv(tr_base * (h - k * self.purlin_spacing), h)])

\* a trapezoid_face_purlins that is absent on every host
PurlinMixin_trapezoid_face_purlins_absent(rfs, heap, self) == NoneResult

\* a trapezoid_face_purlins that does not append top_base after the loop
PurlinMixin_trapezoid_face_purlins_open(rfs, heap, self) ==
    IF self.is_gable \/ IsSubRoof(self.roof) THEN NoneResult
    ELSE LET bottom_base == Roof_length(rfs[self.roof.i]) + 2 * self.overhang
             top_base == Roof_ridge_length(rfs[self.roof.i])
         IN  ListResult(<<bottom_base>> \o
                 [k \in 1..PurlinLevels(self.slope_height, self.purlin_spacing) |->
                     bottom_base - FloorDiv((bottom_base - top_base) * (k * self.purlin_spacing),
                                            self.slope_height)])

\* PurlinMixin.trapezoid_face_purlins
PurlinMixin_trapezoid_face_purlins(rfs, heap, self) ==
    IF self.is_gable \/ IsSubRoof(self.roof) THEN NoneResult
    ELSE LET bottom_base == Roof_length(rfs[self.roof.i]) + 2 * self.overhang
             top_base == Roof_ridge_length(rfs[self.roof.i])
         IN  ListResult(<<bottom_base>> \o
                 [k \in 1..PurlinLevels(self.slope_height, self.purlin_spacing) |->
                     bottom_base - FloorDiv((bottom_base - top_base) * (k * self.purlin_spacing),
                                            self.slope_height)]
                 \o <<top_base>>)

\* PurlinMixin.parallelogram_face_purlins
PurlinMixin_parallelogram_face_purlins(rfs, heap, self) ==
    IF ~IsSubRoof(self.roof) THEN NoneResult
    ELSE LET purlin_length == heap[self.roof.i].width
         IN  ListResult(<<purlin_length>> \o
                 [k \in 1..PurlinLevels(self.slope_height, self.purlin_spacing) |->
                     purlin_length])

\* PurlinMixin.cumulative_purlins_length
PurlinMixin_cumulative_purlins_length(rfs, heap, self) ==
    LET cls == ClassName(rfs, heap, self.roof)
        n == PurlinMixin_purlin_lines_count(rfs, heap, self)
        trapezoid == PurlinMixin_trapezoid_face_purlins(rfs, heap, self).v
        triangular == PurlinMixin_triangular_face_purlins(self).v
    IN  IF self.is_gable /\ cls # "FlatRoof"
        THEN LET extension == IF IsSubRoof(self.roof) THEN Fx(30)
                              ELSE rfs[self.roof.i].side_extension_length
                 length == IF IsSubRoof(self.roof) THEN heap[self.roof.i].length0
                           ELSE Roof_length(rfs[self.roof.i])
             IN  IF n.st # "ok" THEN [st |-> n.st, none |-> FALSE, v |-> 0]
                 ELSE ListResult((length + extension) * n.v * 2)
        ELSE IF cls = "HipRoof"
        THEN ListResult(SumResults([k \in 1..Len(trapezoid) |-> Ok(2 * trapezoid[k])]).v
                        + SumResults([k \in 1..Len(triangular) |-> Ok(triangular[k])]).v)
        ELSE IF cls = "FlatRoof"
        THEN IF n.st # "ok" THEN [st |-> n.st, none |-> FALSE, v |-> 0]
             ELSE ListResult(Roof_length(rfs[self.roof.i]) * n.v)
        ELSE NoneResult

\* jack runs that keep the multiple of truss_spacing equal to half_span
JackRafterMixin_jack_runs_inclusive(self) ==
    [k \in 1..FloorDiv(self.half_span, self.truss_spacing) |-> k * self.truss_spacing]

\* JackRafterMixin._jack_runs
JackRafterMixin_jack_runs(self) ==
    LET n == FloorDiv(self.half_span, self.truss_spacing)
        last_n == IF n >= 1 /\ n * self.truss_spacing >= self.half_span THEN n - 1 ELSE n
    IN  [k \in 1..last_n |-> k * self.truss_spacing]

\* 1000 / cos(atan(pitch)), pitch in thousandths
SecAtanMilli(pitch) == ISqrt(1000000 + pitch * pitch)

\* JackRafterMixin.collective_jack_rafter_lengths
JackRafterMixin_collective_jack_rafter_lengths(self) ==
    IF self.is_gable THEN NoneResult
    ELSE LET runs == JackRafterMixin_jack_runs(self)
         IN  ListResult([k \in 1..Len(runs) |-> (runs[k] * SecAtanMilli(self.pitch)) \div 1000])

\* JackRafterMixin.jack_tiebeams_lengths
JackRafterMixin_jack_tiebeams_lengths(self) ==
    IF self.is_gable THEN NoneResult
    ELSE LET runs == JackRafterMixin_jack_runs(self)
         IN  ListResult([k \in 1..Len(runs) |-> (runs[k] * 1000) \div SecAtanMilli(self.pitch)])

\* RoofFrame.diagonal_hip_tiebeam_length
RoofFrame_diagonal_hip_tiebeam_length(self) ==
    IF self.is_gable THEN NoneResult ELSE ListResult(Hypot(self.half_span, self.half_span))

\* RoofFrame.hip_rafter_length
RoofFrame_hip_rafter_length(self) ==
    IF self.is_gable THEN NoneResult
    ELSE LET hip_rafter_overhang == Hypot(self.overhang, self.overhang)
         IN  ListResult(Hypot(RoofFrame_diagonal_hip_tiebeam_length(self).v, self.rise)
                        + hip_rafter_overhang)

\* RoofFrame.common_tiebeam_length
RoofFrame_common_tiebeam_length(self) ==
    IF self.is_gable THEN NoneResult ELSE ListResult(2 * self.half_span)

\* RoofFrame.hip_face_common_tiebeam
RoofFrame_hip_face_common_tiebeam(self) ==
    IF self.is_gable THEN NoneResult ELSE ListResult(self.half_span)

\* RoofFrame.to_dict: every accessor, in the order of the dictionary; the
\* first one that raises ends it
RoofFrame_to_dict(rfs, heap, self) ==
    LET d == [ jack_rafter_lengths |-> JackRafterMixin_collective_jack_rafter_lengths(self),
               main_trusses_count |-> ListResult(RoofFrame_main_trusses_count(rfs, heap, self)),
               hip_rafter_length |-> RoofFrame_hip_rafter_length(self),
               common_tiebeam_length |-> RoofFrame_common_tiebeam_length(self),
               hip_face_common_tiebeam |-> RoofFrame_hip_face_common_tiebeam(self),
               jack_tiebeams_lengths |-> JackRafterMixin_jack_tiebeams_lengths(self),
               diagonal_hip_tiebeam_length |-> RoofFrame_diagonal_hip_tiebeam_length(self),
               cumulative_purlins_length |-> PurlinMixin_cumulative_purlins_length(rfs, heap, self),
               purlin_lines_count |-> PurlinMixin_purlin_lines_count(rfs, heap, self),
               triangular_face_purlins |-> PurlinMixin_triangular_face_purlins(self),
               trapezoid_face_purlins |-> PurlinMixin_trapezoid_face_purlins(rfs, heap, self),
               parallelogram_face_purlins |-> PurlinMixin_parallelogram_face_purlins(rfs, heap, self) ]
    IN  IF d.cumulative_purlins_length.st # "ok"
        THEN [st |-> d.cumulative_purlins_length.st, v |-> << >>]
        ELSE IF d.purlin_lines_count.st # "ok"
        THEN [st |-> d.purlin_lines_count.st, v |-> << >>]
        ELSE [st |-> "ok", v |-> d]


---------------------------------------------------------------------------
(* Bounds and inputs *)

\* sub-roof objects in the heap
MaxSubs == 2

\* the roofs constructed in one run of the life cycle of the sub-roofs
MaxRoofs == 2

\* the arguments of a roof constructor; a parameter a variant does not take
\* is ignored by it
DefaultArgs ==
    [ building_length |-> Fx(100), building_width |-> Fx(60),
      roof_overhang |-> Fx(60), height_ratio |-> 3,
      side_extension_length |-> Fx(30), flat_roof_rise |-> Fx(10),
      unit |-> "cm", pitch_deg |-> Unset, pitch_rise |-> Unset ]

RoofArgs ==
       {[DefaultArgs EXCEPT !.building_length = Fx(d[1]), !.building_width = Fx(d[2]),
                            !.unit = u] :
           d \in {<<100, 60>>, <<60, 60>>, <<0 - 100, 60>>, <<100, 0>>},
           u \in {"cm", "m", "ft", "inch"}}
  \cup {[DefaultArgs EXCEPT !.roof_overhang = Fx(x)] : x \in {0, 0 - 50}}
  \cup {[DefaultArgs EXCEPT !.height_ratio = x] : x \in {0 - 3, 1}}
  \cup {[DefaultArgs EXCEPT !.side_extension_length = Fx(x)] : x \in {0 - 10}}
  \cup {[DefaultArgs EXCEPT !.flat_roof_rise = Fx(x)] : x \in {0 - 5}}
  \cup {[DefaultArgs EXCEPT !.pitch_deg = x] : x \in {9999, 10000, 35000, 60000, 60001}}
  \cup {[DefaultArgs EXCEPT !.pitch_deg = 35000, !.pitch_rise = 6]}

\* the type tags handed to the factory, one of them not a RoofType
TypeTags == RoofTypes \cup {"DOME"}

\* the keyword arguments handed to the factory: recognised, irrelevant to
\* some variant, and unknown ("colour") names
KwValues ==
    { [roof_overhang |-> Fx(40), height_ratio |-> 2, side_extension_length |-> Fx(20),
       flat_roof_rise |-> Fx(5), colour |-> 7],
      [roof_overhang |-> Fx(0 - 5), height_ratio |-> 0, side_extension_length |-> Fx(0),
       flat_roof_rise |-> Fx(0 - 1), colour |-> 0] }

KwNames ==
    { {}, {"roof_overhang"}, {"roof_overhang", "colour"}, {"height_ratio", "flat_roof_rise"},
      {"side_extension_length"}, {"side_extension_length", "colour"}, {"flat_roof_rise"},
      {"colour"} }

KwArgs == { [k \in names |-> vals[k]] : names \in KwNames, vals \in KwValues }

FactoryDims == { <<Fx(100), Fx(60)>>, <<Fx(60), Fx(60)>>, <<Fx(0), Fx(60)>> }

\* the hosts of the mixin: which of the three attributes they have, and
\* their values (half span, overhang, height, in cm)
MixinAttrs == {"roof_half_span", "roof_overhang", "roof_height"}

MixinHosts ==
    { [present |-> P, roof_half_span |-> Fx(d[1]), roof_overhang |-> Fx(d[2]),
       roof_height |-> Fx(d[3])] :
          P \in SUBSET MixinAttrs, d \in {<<30, 5, 20>>, <<60, 60, 20>>, <<10, 0, 5>>} }

\* the arguments of the roofs constructed with sub-roofs attached
AttachedRoofArgs ==
    { DefaultArgs, [DefaultArgs EXCEPT !.unit = "m"],
      [DefaultArgs EXCEPT !.building_length = Fx(0)] }

\* the roofs calculations are made on
ReceiverPitches == {<<35000, Unset>>, <<35000, 6>>, <<Unset, 6>>}

ReceiverShapes ==
    { HipRoofObject(Fx(100), Fx(60), Fx(60), 3, "cm"),
      HipRoofObject(Fx(60), Fx(60), Fx(60), 3, "cm"),
      GableRoofObject(Fx(100), Fx(60), Fx(30), 3, Fx(60), "cm"),
      GableRoofObject(Fx(60), Fx(60), Fx(30), 1, Fx(60), "cm"),
      FlatRoofObject(Fx(100), Fx(60), Fx(10), Fx(60), "cm") }

Receivers ==
    ReceiverShapes
      \cup {[GableRoofObject(Fx(100), Fx(60), Fx(30), 3, Fx(60), "cm")
                EXCEPT !.pitch_deg = p[1], !.pitch_rise = p[2]] : p \in ReceiverPitches}

InitRoofs ==
       {<<r>> : r \in Receivers}
  \cup {<<r, FlatRoofObject(Fx(100), Fx(60), Fx(10), Fx(60), "cm")>> :
           r \in { HipRoofObject(Fx(100), Fx(60), Fx(60), 3, "cm"),
                   GableRoofObject(Fx(100), Fx(60), Fx(30), 3, Fx(60), "cm") }}
  \cup {<<HipRoofObject(Fx(100), Fx(60), Fx(60), 3, "cm"),
          GableRoofObject(Fx(60), Fx(60), Fx(30), 1, Fx(60), "cm")>>}

SubDims == {<<20, 30>>, <<0, 30>>, <<20, 0 - 5>>}

Spacings == {Fx(0), Fx(0 - 5), Fx(50), Fx(100), Fx(200)}

\* a purlin spacing that divides the slope height of the 60 wide hip roofs
\* (4802 units) exactly: 13.72 cm
AlignedSpacing == 686

FrameArgs ==
    { <<Fx(50), Fx(50), "cm">>, <<Fx(0), Fx(50), "cm">>, <<Fx(50), Fx(0 - 5), "cm">>,
      <<Fx(100), Fx(50), "cm">>, <<Fx(200), Fx(200), "cm">>,
      <<Fx(10), Fx(20), "cm">>, <<Fx(1), Fx(1), "m">>,
      <<Fx(40), AlignedSpacing, "cm">> }

Sheets ==
    { [length |-> Fx(50), width |-> Fx(20)], [length |-> Fx(200), width |-> Fx(100)],
      [length |-> Fx(0), width |-> Fx(100)], [length |-> Fx(40), width |-> Fx(20)],
      [length |-> Fx(50), width |-> Fx(60)] }

Overups ==
    { [left_right_overup |-> Fx(5), top_bottom_overup |-> Fx(5)],
      [left_right_overup |-> Fx(0), top_bottom_overup |-> Fx(5)] }

\* the overlaps a cover is built with: some reach or pass the sheet's dimensions
CoverOverups ==
    Overups \cup
    { [left_right_overup |-> Fx(50), top_bottom_overup |-> Fx(5)],
      [left_right_overup |-> Fx(5), top_bottom_overup |-> Fx(20)],
      [left_right_overup |-> Fx(60), top_bottom_overup |-> Fx(5)],
      [left_right_overup |-> Fx(60), top_bottom_overup |-> Fx(30)],
      [left_right_overup |-> Fx(5), top_bottom_overup |-> Fx(0 - 5)] }

WasteTenths == {0 - 1, 0, 1}

CoverLengths == {Fx(0), Fx(0 - 5), Fx(50), Fx(160), Fx(220), Fx(300)}

---------------------------------------------------------------------------
(* The state: the roofs, the heap of sub-roofs, and the call just made     *)
(* with what it returned or raised.  The caller takes the outcome (Return) *)
(* before it makes the next call.                                          *)

\* every roof or sub-roof object a reference can name
Refs(rfs, heap) ==
    {RoofRef(i) : i \in DOMAIN rfs} \cup {SubRef(j) : j \in DOMAIN heap}

\* the sub-roofs listed in some sub_roofs_attached
Listed(rfs, heap) ==
    UNION {Range(rfs[i].sub_roofs_attached) : i \in DOMAIN rfs}
      \cup UNION {Range(heap[j].sub_roofs_attached) : j \in DOMAIN heap}

RECURSIVE Ancestors(_, _)
\* the sub-roofs on the parent chain from ref upwards, ref included
Ancestors(heap, ref) ==
    IF ref.k # "sub" THEN {} ELSE {ref.i} \cup Ancestors(heap, heap[ref.i].parent)

RECURSIVE SetToSeq(_)
SetToSeq(S) ==
    IF S = {} THEN << >>
    ELSE LET m == CHOOSE x \in S : \A y \in S : x <= y
         IN  <<m>> \o SetToSeq(S \ {m})

Idle == [op |-> "none", st |-> "ok"]

Init ==
    /\ roofs \in InitRoofs
    /\ subs = << >>
    /\ last = Idle

\* HipRoof(...), GableRoof(...), FlatRoof(...), with an optional explicit pitch
NewRoof(cls, a) ==
    LET r == IF cls = "HipRoof"
             THEN HipRoof_init(a.building_length, a.building_width, << >>,
                               a.roof_overhang, a.height_ratio, a.unit)
             ELSE IF cls = "GableRoof"
             THEN GableRoof_init(a.building_length, a.building_width, << >>,
                                 a.side_extension_length, a.height_ratio,
                                 a.roof_overhang, a.unit)
             ELSE FlatRoof_init(a.building_length, a.building_width, << >>,
                                a.flat_roof_rise, a.roof_overhang, a.unit)
        res == Roof_explicit_pitch(r, a.pitch_deg, a.pitch_rise)
    IN  /\ last = Idle
        /\ last' = [op |-> "NewRoof", cls |-> cls, args |-> a, st |-> res.st, v |-> res.v]
        /\ UNCHANGED <<roofs, subs>>

\* HipSubRoof(...), GableSubRoof(...)
NewSubRoof(cls, d, unit, children, parent) ==
    LET res == SubRoof_post_init(roofs, subs, cls, Fx(d[1]), Fx(d[2]), unit,
                                 SetToSeq(children), parent)
    IN  /\ last = Idle
        /\ Len(subs) < MaxSubs
        /\ \A c \in children : subs[c].built
        /\ children \cap Listed(roofs, subs) = {}
        /\ children \cap Ancestors(subs, parent) = {}
        /\ subs' = res.heap
        /\ last' = [op |-> "NewSubRoof", cls |-> cls, section_length |-> Fx(d[1]),
                    width |-> Fx(d[2]), unit |-> unit, children |-> children,
                    parent |-> parent, st |-> res.st]
        /\ UNCHANGED roofs

\* main_roof.sub_roofs_attached = [..., sub]
AttachSubRoof(i, j) ==
    /\ last = Idle
    /\ subs[j].built
    /\ j \notin Listed(roofs, subs)
    /\ roofs' = [roofs EXCEPT ![i].sub_roofs_attached = Append(@, j)]
    /\ last' = [op |-> "attach", st |-> "ok"]
    /\ UNCHANGED subs

\* a collective_roof_area that takes the sub-roofs off the list as it sums them
CollectiveRoofArea_consuming(i) ==
    LET res == Roof_collective_roof_area(roofs, subs, roofs[i])
    IN  /\ last = Idle
        /\ last' = [op |-> "collective_roof_area", roof |-> i, st |-> res.st, v |-> res.v]
        /\ roofs' = [roofs EXCEPT ![i].sub_roofs_attached = << >>]
        /\ UNCHANGED subs

\* roof.collective_roof_area()
CollectiveRoofArea(i) ==
    LET res == Roof_collective_roof_area(roofs, subs, roofs[i])
    IN  /\ last = Idle
        /\ last' = [op |-> "collective_roof_area", roof |-> i, st |-> res.st, v |-> res.v]
        /\ UNCHANGED <<roofs, subs>>

\* roof.trusses_count(truss_spacing)
TrussesCount(i, spacing) ==
    LET res == Roof_trusses_count(roofs[i], spacing)
    IN  /\ last = Idle
        /\ last' = [op |-> "trusses_count", roof |-> i, spacing |-> spacing,
                    st |-> res.st, v |-> res.v]
        /\ UNCHANGED <<roofs, subs>>

\* roof.purlin_lines_count(purlin_spacing)
PurlinLinesCount(i, spacing) ==
    LET res == Roof_purlin_lines_count(roofs[i], spacing)
    IN  /\ last = Idle
        /\ last' = [op |-> "purlin_lines_count", roof |-> i, spacing |-> spacing,
                    st |-> res.st, v |-> res.v]
        /\ UNCHANGED <<roofs, subs>>

\* roof.iron_sheets_count(sheet_size, waste_percent)
IronSheetsCount(i, sheet, waste) ==
    LET res == Roof_iron_sheets_count(roofs[i], sheet, waste)
    IN  /\ last = Idle
        /\ last' = [op |-> "iron_sheets_count", roof |-> i, sheet |-> sheet,
                    waste |-> waste, st |-> res.st, v |-> res.v]
        /\ UNCHANGED <<roofs, subs>>

\* RoofFrame(host, truss_spacing, purlin_spacing, unit) and the accessors read
\* of the new frame
NewRoofFrame(ref, f) ==
    /\ last = Idle
    /\ ref.k = "sub" => subs[ref.i].built
    /\ \E res \in {RoofFrame_post_init(roofs, subs, ref, f[1], f[2], f[3])} :
          last' = [op |-> "RoofFrame", host |-> ref, truss_spacing |-> f[1],
                      purlin_spacing |-> f[2], unit |-> f[3], st |-> res.st,
                      frame |-> res.v,
                      main_trusses_count |->
                          IF res.st = "ok"
                          THEN RoofFrame_main_trusses_count(roofs, subs, res.v) ELSE 0,
                      purlin_lines_count |->
                          IF res.st = "ok"
                          THEN PurlinMixin_purlin_lines_count(roofs, subs, res.v) ELSE res,
                      triangular_face_purlins |->
                          IF res.st = "ok"
                          THEN PurlinMixin_triangular_face_purlins(res.v) ELSE NoneResult,
                      trapezoid_face_purlins |->
                          IF res.st = "ok"
                          THEN PurlinMixin_trapezoid_face_purlins(roofs, subs, res.v)
                          ELSE NoneResult,
                      parallelogram_face_purlins |->
                          IF res.st = "ok"
                          THEN PurlinMixin_parallelogram_face_purlins(roofs, subs, res.v)
                          ELSE NoneResult,
                      to_dict |->
                          IF res.st = "ok" THEN RoofFrame_to_dict(roofs, subs, res.v)
                          ELSE [st |-> res.st, v |-> << >>]]
    /\ UNCHANGED <<roofs, subs>>

\* host.roof_pitch_angle_degrees
PitchAngle(ref) ==
    LET res == roof_pitch_angle_degrees(roofs, subs, ref)
    IN  /\ last = Idle
        /\ last' = [op |-> "roof_pitch_angle_degrees", host |-> ref,
                    st |-> res.st, v |-> res.v]
        /\ UNCHANGED <<roofs, subs>>

\* roof.roof_area()
RoofArea(i) ==
    LET res == Roof_roof_area(roofs[i])
    IN  /\ last = Idle
        /\ last' = [op |-> "roof_area", roof |-> i, st |-> res.st, v |-> res.v]
        /\ UNCHANGED <<roofs, subs>>

\* Roof.to_dict
Roof_to_dict(self) ==
    [ type |-> self.cls, length |-> self.building_length, width |-> self.building_width,
      unit |-> self.unit ]

\* roof.to_dict()
RoofToDict(i) ==
    /\ last = Idle
    /\ last' = [op |-> "to_dict", roof |-> i, st |-> "ok", v |-> Roof_to_dict(roofs[i])]
    /\ UNCHANGED <<roofs, subs>>

\* the accessors of a sub-roof: roof_half_span, slope_height, pitch_rise_run,
\* roof_height, roof_overhang and roof_area()
SubRoof_accessors(rfs, heap, j) ==
    [ roof_half_span |-> Ok(SubRoof_roof_half_span(heap[j])),
      slope_height |-> SubRoof_slope_height(rfs, heap, heap[j]),
      pitch_rise_run |-> SubRoof_pitch_rise_run(rfs, heap, heap[j]),
      roof_height |-> SubRoof_roof_height(rfs, heap, heap[j]),
      roof_overhang |-> host_roof_overhang(rfs, heap, SubRef(j)),
      roof_area |-> SubRoof_roof_area(rfs, heap, heap[j]) ]

\* sub.roof_area() and the properties of sub
SubRoofRead(j) ==
    /\ last = Idle
    /\ last' = [op |-> "sub_roof", sub |-> j, st |-> "ok",
                v |-> SubRoof_accessors(roofs, subs, j)]
    /\ UNCHANGED <<roofs, subs>>

\* roof.ridge_cover_count(cover_length)
RidgeCoverCount(i, cover_length) ==
    LET res == Roof_ridge_cover_count(roofs[i], cover_length)
    IN  /\ last = Idle
        /\ last' = [op |-> "ridge_cover_count", roof |-> i, cover_length |-> cover_length,
                    st |-> res.st, v |-> res.v]
        /\ UNCHANGED <<roofs, subs>>

\* roof._get_roof_diagonal_height(): the slope height shared by the variants
SlopeHeight(i) ==
    LET res == Roof_get_roof_diagonal_height(roofs[i])
    IN  /\ last = Idle
        /\ last' = [op |-> "slope_height", roof |-> i, st |-> res.st, v |-> res.v]
        /\ UNCHANGED <<roofs, subs>>

\* SheetCover(sheet_size, cover_overup), then cover.sheet_area
NewSheetCover(sheet_size, cover_overup) ==
    LET res == SheetCover_post_init(sheet_size, cover_overup)
    IN  /\ last = Idle
        /\ last' = [op |-> "NewSheetCover", sheet |-> sheet_size, overup |-> cover_overup,
                    st |-> res.st,
                    v |-> IF res.st = "ok" THEN SheetCover_sheet_area(res.v) ELSE Unset]
        /\ UNCHANGED <<roofs, subs>>

\* the caller takes the outcome of the call
Return ==
    /\ last # Idle
    /\ last' = Idle
    /\ UNCHANGED <<roofs, subs>>

\* roof construction
\* RoofFactory.create_roof(roof_type, building_length, building_width, unit, **kwargs)
CreateRoof(roof_type, d, unit, kwargs) ==
    LET res == RoofFactory_create_roof(roof_type, d[1], d[2], unit, kwargs)
    IN  /\ last = Idle
        /\ last' = [op |-> "create_roof", roof_type |-> roof_type,
                    building_length |-> d[1], building_width |-> d[2], unit |-> unit,
                    kwargs |-> kwargs, st |-> res.st, v |-> res.v]
        /\ UNCHANGED <<roofs, subs>>

NextNew ==
    \/ \E cls \in RoofClasses, a \in RoofArgs : NewRoof(cls, a)
    \/ \E roof_type \in TypeTags, d \in FactoryDims, unit \in {"cm", "m"}, kwargs \in KwArgs :
          CreateRoof(roof_type, d, unit, kwargs)
    \/ Return

SpecNew == Init /\ [][NextNew]_vars

\* host.<quantity> on a host of the hip-geometry mixin
MixinRead(host, quantity) ==
    LET res == HipRoofMixin_read(host, quantity)
    IN  /\ last = Idle
        /\ last' = [op |-> "mixin", host |-> host, quantity |-> quantity,
                    st |-> res.st, v |-> res.v, attr |-> res.attr]
        /\ UNCHANGED <<roofs, subs>>

\* the hip-geometry mixin on its own: no roof is needed
InitMixin ==
    /\ roofs = << >>
    /\ subs = << >>
    /\ last = Idle

NextMixin ==
    \/ \E host \in MixinHosts, quantity \in MixinQuantities : MixinRead(host, quantity)
    \/ Return

SpecMixin == InitMixin /\ [][NextMixin]_vars

\* HipRoof(L, W, sub_roofs_attached=[...]), GableRoof(...), FlatRoof(...): the
\* new roof keeps the list it was given
NewRoofAttached(cls, a, children) ==
    LET attached == SetToSeq(children)
        r == IF cls = "HipRoof"
             THEN HipRoof_init(a.building_length, a.building_width, attached,
                               a.roof_overhang, a.height_ratio, a.unit)
             ELSE IF cls = "GableRoof"
             THEN GableRoof_init(a.building_length, a.building_width, attached,
                                 a.side_extension_length, a.height_ratio,
                                 a.roof_overhang, a.unit)
             ELSE FlatRoof_init(a.building_length, a.building_width, attached,
                                a.flat_roof_rise, a.roof_overhang, a.unit)
    IN  /\ last = Idle
        /\ Len(roofs) < MaxRoofs
        /\ \A c \in children : subs[c].built
        /\ children \cap Listed(roofs, subs) = {}
        /\ roofs' = IF r.st = "ok" THEN Append(roofs, r.v) ELSE roofs
        /\ last' = [op |-> "NewRoofAttached", cls |-> cls, args |-> a,
                    children |-> children, st |-> r.st]
        /\ UNCHANGED subs

\* the life cycle of the sub-roofs: nothing exists at the start
InitLife ==
    /\ roofs = << >>
    /\ subs = << >>
    /\ last = Idle

NextLife ==
    \/ \E cls \in SubRoofClasses, d \in SubDims, children \in SUBSET (DOMAIN subs),
          parent \in {NoneRef} \cup Refs(roofs, subs) :
          NewSubRoof(cls, d, "cm", children, parent)
    \/ \E cls \in RoofClasses, a \in AttachedRoofArgs, children \in SUBSET (DOMAIN subs) :
          NewRoofAttached(cls, a, children)
    \/ Return

SpecLife == InitLife /\ [][NextLife]_vars

\* the plans a hip roof is built over: longer than wide, square, wider than long
RidgeRoofArgs ==
    {[DefaultArgs EXCEPT !.building_length = Fx(d[1]), !.building_width = Fx(d[2])] :
        d \in {<<100, 60>>, <<60, 60>>, <<60, 100>>}}

\* hip roofs from their constructor, and the frames over them
NextRidge ==
    \/ \E a \in RidgeRoofArgs : NewRoofAttached("HipRoof", a, {})
    \/ \E ref \in Refs(roofs, subs), f \in FrameArgs : NewRoofFrame(ref, f)
    \/ Return

SpecRidge == InitLife /\ [][NextRidge]_vars

\* the calculations of a roof on its own
NextCalc ==
    \/ \E i \in DOMAIN roofs : RoofArea(i)
    \/ \E i \in DOMAIN roofs, cover_length \in CoverLengths : RidgeCoverCount(i, cover_length)
    \/ \E i \in DOMAIN roofs : SlopeHeight(i)
    \/ \E sheet \in Sheets, o \in CoverOverups : NewSheetCover(sheet, o)
    \/ Return

SpecCalc == Init /\ [][NextCalc]_vars

\* sub-roofs, attachment and the calculations over the roofs
Next ==
    \/ \E cls \in SubRoofClasses, d \in SubDims, children \in SUBSET (DOMAIN subs),
          parent \in {NoneRef} \cup Refs(roofs, subs) :
          NewSubRoof(cls, d, "cm", children, parent)
    \/ \E i \in DOMAIN roofs, j \in DOMAIN subs : AttachSubRoof(i, j)
    \/ \E i \in DOMAIN roofs : CollectiveRoofArea(i)
    \/ \E i \in DOMAIN roofs, spacing \in Spacings : TrussesCount(i, spacing)
    \/ \E i \in DOMAIN roofs, spacing \in Spacings : PurlinLinesCount(i, spacing)
    \/ \E i \in DOMAIN roofs, sheet \in Sheets, waste \in WasteTenths :
          IronSheetsCount(i, sheet, waste)
    \/ \E ref \in Refs(roofs, subs), f \in FrameArgs : NewRoofFrame(ref, f)
    \/ \E ref \in Refs(roofs, subs) : PitchAngle(ref)
    \/ \E i \in DOMAIN roofs : RoofArea(i)
    \/ \E i \in DOMAIN roofs : RoofToDict(i)
    \/ \E j \in DOMAIN subs : SubRoofRead(j)
    \/ Return

Spec == Init /\ [][Next]_vars

---------------------------------------------------------------------------
(* The properties *)

\* the factor of a unit, times 100: CM x1, M x100, FT x30.48
UnitFactor_x100(unit) ==
    IF unit = "m" THEN 10000 ELSE IF unit = "ft" THEN 3048 ELSE 100

\* the arguments a constructor call must reject as a dimension: some length
\* or ratio the variant takes is <= 0
NonPositiveArg(cls, a) ==
    \/ a.building_length <= 0
    \/ a.building_width <= 0
    \/ a.roof_overhang <= 0
    \/ cls # "FlatRoof" /\ a.height_ratio <= 0
    \/ cls = "GableRoof" /\ a.side_extension_length <= 0
    \/ cls = "FlatRoof" /\ a.flat_roof_rise <= 0

\* C1: for every variant, every building_length > 0 and building_width > 0
\* (the other arguments at valid values, no explicit pitch) and every unit of
\* CM, M, FT, construction succeeds and building_length, building_width are
\* the inputs times the unit factor, whatever the variant.
C1_ConstructionConvertsUnits ==
    ( /\ last.op = "NewRoof"
      /\ ~NonPositiveArg(last.cls, last.args)
      /\ last.args.unit \in Units
      /\ last.args.pitch_deg = Unset
      /\ last.args.pitch_rise = Unset )
    => /\ last.st = "ok"
       /\ last.v.building_length
            = (last.args.building_length * UnitFactor_x100(last.args.unit)) \div 100
       /\ last.v.building_width
            = (last.args.building_width * UnitFactor_x100(last.args.unit)) \div 100

RECURSIVE Descendants(_, _)
\* the sub-roofs in ids and every sub-roof attached below them
Descendants(heap, ids) ==
    IF ids = {} THEN {}
    ELSE ids \cup Descendants(heap, UNION {Range(heap[j].sub_roofs_attached) : j \in ids})

RECURSIVE SumFn(_, _)
\* the sum of f over the set S
SumFn(f, S) ==
    IF S = {} THEN 0
    ELSE LET x == CHOOSE y \in S : TRUE
         IN  f[x] + SumFn(f, S \ {x})

\* the sub-roofs directly attached to roof i, and those directly or
\* transitively attached
DirectOf(i) == Range(roofs[i].sub_roofs_attached)

AllBelow(i) == Descendants(subs, DirectOf(i))

C3_NonPositiveRejected ==
    /\ (last.op = "NewRoof" /\ NonPositiveArg(last.cls, last.args))
          => last.st = "InvalidDimensionsError"
    /\ (last.op = "NewSubRoof" /\ (last.section_length <= 0 \/ last.width <= 0))
          => last.st = "InvalidDimensionsError"
    /\ (last.op = "RoofFrame" /\ (last.truss_spacing <= 0 \/ last.purlin_spacing <= 0))
          => last.st = "InvalidDimensionsError"
    /\ (last.op \in {"purlin_lines_count", "trusses_count"} /\ last.spacing <= 0)
          => last.st = "InvalidDimensionsError"

\* C4: constructing a SubRoof with valid section_length and width under a
\* FlatRoof parent fails with NotImplementedError, and no SubRoof object has
\* a FlatRoof as its parent.
C4_NoSubRoofUnderFlatRoof ==
    /\ ( /\ last.op = "NewSubRoof"
         /\ last.section_length > 0
         /\ last.width > 0
         /\ ClassName(roofs, subs, last.parent) = "FlatRoof" )
          => last.st = "NotImplementedError"
    /\ \A j \in DOMAIN subs : ClassName(roofs, subs, subs[j].parent) # "FlatRoof"

\* C5: for every roof and every truss spacing > 0 the main truss count n
\* is floor(building_length / spacing) + 1, that is
\* (n - 1) * spacing <= building_length < n * spacing; so n >= 1, n = 1 when
\* the spacing exceeds the length and n = 2 when it equals the length.  The
\* same holds of the count of a RoofFrame over a roof, with its spacing in cm.
C5_MainTrussCount ==
    /\ (last.op = "trusses_count" /\ last.spacing > 0) =>
          LET L == roofs[last.roof].building_length
          IN  /\ last.st = "ok"
              /\ (last.v - 1) * last.spacing <= L
              /\ L < last.v * last.spacing
              /\ last.v >= 1
              /\ last.spacing > L => last.v = 1
              /\ last.spacing = L => last.v = 2
    /\ (last.op = "RoofFrame" /\ last.st = "ok" /\ last.host.k = "roof") =>
          LET L == roofs[last.host.i].building_length
              n == last.main_trusses_count
              spacing == (last.truss_spacing * UnitFactor_x100(last.unit)) \div 100
          IN  /\ (n - 1) * spacing <= L
              /\ L < n * spacing
              /\ n >= 1

\* C5 witness: a truss count asked with a spacing above the building length
C5_SpacingAboveLength ==
    /\ last.op = "trusses_count"
    /\ last.spacing > roofs[last.roof].building_length
    /\ last.st = "ok"
    /\ last.v = 1

\* C6 as claimed: the truss count of a HipRoof comes from the ridge span
\* L - W: floor((building_length - building_width) / spacing) + 1.
C6_HipTrussCountFromRidgeSpan ==
    ( /\ last.op = "trusses_count"
      /\ last.spacing > 0
      /\ roofs[last.roof].cls = "HipRoof" )
    => /\ last.st = "ok"
       /\ last.v = ((roofs[last.roof].building_length - roofs[last.roof].building_width)
                      \div last.spacing) + 1

\* C6 amended: the truss count of a HipRoof comes from the building length
\* L as for every variant: floor(building_length / spacing) + 1; a
\* 100 x 60 HipRoof at spacing 50 has 3, not 1.
C6_HipTrussCountFromLength ==
    ( /\ last.op = "trusses_count"
      /\ last.spacing > 0
      /\ roofs[last.roof].cls = "HipRoof" )
    => /\ last.st = "ok"
       /\ last.v = (roofs[last.roof].building_length \div last.spacing) + 1
       /\ ( /\ roofs[last.roof].building_length = Fx(100)
            /\ roofs[last.roof].building_width = Fx(60)
            /\ last.spacing = Fx(50) ) => last.v = 3

\* C6 witness: the count of a HipRoof where the two spans give different counts
C6_HipCountedOnLength ==
    /\ last.op = "trusses_count"
    /\ roofs[last.roof].cls = "HipRoof"
    /\ roofs[last.roof].building_length = Fx(100)
    /\ roofs[last.roof].building_width = Fx(60)
    /\ last.spacing = Fx(50)
    /\ last.v = 3

\* C7: with a valid sheet, the sheet count accepts waste_percent = 0 and
\* returns a count, and fails with InvalidDimensionsError for every
\* waste_percent < 0.
C7_WastePercentChecked ==
    (last.op = "iron_sheets_count" /\ validate_sheet_size(last.sheet) = "ok") =>
        /\ last.waste = 0 => last.st = "ok"
        /\ last.waste < 0 => last.st = "InvalidDimensionsError"

\* C8: for every valid sheet, every overlap and waste_percent >= 0, the sheet
\* count is ceil(area * (1 + waste_percent) / effective_sheet_area) with the
\* collective area of the roof and the sheet area left after the overlaps.
C8_SheetCountFromCollectiveAndEffectiveArea ==
    ( /\ last.op = "iron_sheets_count"
      /\ validate_sheet_size(last.sheet) = "ok"
      /\ last.waste >= 0
      /\ Roof_collective_roof_area(roofs, subs, roofs[last.roof]).st = "ok" )
    => /\ last.st = "ok"
       /\ \A o \in Overups :
             last.v = CeilDiv(Roof_collective_roof_area(roofs, subs, roofs[last.roof]).v
                                * (10 + last.waste),
                              10 * SheetCover_sheet_area([sheet_size |-> last.sheet,
                                                          cover_overup |-> o]))

\* C9: a roof constructed with an explicit pitch (all else valid) is accepted
\* exactly when the pitch lies in [10, 60] degrees, and fails with
\* InvalidPitchError below 10 and above 60.
C9_PitchInClosedInterval ==
    ( /\ last.op = "NewRoof"
      /\ ~NonPositiveArg(last.cls, last.args)
      /\ last.args.unit \in Units
      /\ last.args.pitch_deg # Unset )
    => IF 10 * 1000 <= last.args.pitch_deg /\ last.args.pitch_deg <= 60 * 1000
       THEN last.st = "ok" /\ last.v.pitch_deg = last.args.pitch_deg
       ELSE last.st = "InvalidPitchError"

\* t is the tangent of the angle a, to the grid: tan(a) <= t <= tan(a + 0.001)
IsAngleOf(a, t) == TanMilli(a) <= t /\ t <= TanMilli(a + 1)

\* C10: roof_pitch_angle_degrees of a roof of any variant returns the angle
\* of the explicit PitchRatio if one was given; else the explicit degrees if
\* given; else the angle whose tangent is roof_height / roof_half_span.
C10_PitchAnglePrecedence ==
    (last.op = "roof_pitch_angle_degrees" /\ last.host.k = "roof") =>
        LET r == roofs[last.host.i]
            height == IF r.cls = "FlatRoof" THEN r.flat_roof_rise
                      ELSE r.building_width \div r.height_ratio
        IN  /\ last.st = "ok"
            /\ r.pitch_rise # Unset => IsAngleOf(last.v, (r.pitch_rise * 1000) \div 12)
            /\ (r.pitch_rise = Unset /\ r.pitch_deg # Unset) => last.v = r.pitch_deg
            /\ (r.pitch_rise = Unset /\ r.pitch_deg = Unset)
                  => IsAngleOf(last.v, (height * 1000) \div (r.building_width \div 2))

\* C10 witness: the angle of a roof given both a PitchRatio and degrees
C10_RatioBeforeDegrees ==
    /\ last.op = "roof_pitch_angle_degrees"
    /\ last.host.k = "roof"
    /\ roofs[last.host.i].pitch_rise # Unset
    /\ roofs[last.host.i].pitch_deg # Unset
    /\ last.st = "ok"
    /\ last.v # roofs[last.host.i].pitch_deg

\* C11: for every cover_length > 0, ridge_cover_count of a GableRoof is
\* ceil((building_length + 2 * side_extension_length) / cover_length), so a
\* cover as long as that ridge gives 1; ridge_cover_count of a FlatRoof is 0.
C11_RidgeCoversAlongExtendedRidge ==
    (last.op = "ridge_cover_count" /\ last.cover_length > 0) =>
        LET r == roofs[last.roof]
            ridge_length == r.building_length + 2 * r.side_extension_length
        IN  /\ r.cls = "GableRoof" =>
                  /\ last.st = "ok"
                  /\ (last.v - 1) * last.cover_length < ridge_length
                  /\ ridge_length <= last.v * last.cover_length
                  /\ last.cover_length = ridge_length => last.v = 1
            /\ r.cls = "FlatRoof" => last.st = "ok" /\ last.v = 0

\* C12: the slope height shared by the variants fails with
\* NotImplementedError on every FlatRoof and returns no number; on a HipRoof
\* and a GableRoof it is hypot(roof_height, roof_half_span) + overhang.
C12_SlopeHeightNotForFlat ==
    last.op = "slope_height" =>
        LET r == roofs[last.roof]
        IN  IF r.cls = "FlatRoof"
            THEN last.st = "NotImplementedError"
            ELSE LET h == r.building_width \div r.height_ratio
                     s == r.building_width \div 2
                     hyp == last.v - r.roof_overhang
                 IN  /\ last.st = "ok"
                     /\ hyp >= 0
                     /\ hyp * hyp <= h * h + s * s
                     /\ h * h + s * s < (hyp + 1) * (hyp + 1)

\* C12 witness: the slope height was asked of a FlatRoof
C12_FlatAsked ==
    /\ last.op = "slope_height"
    /\ roofs[last.roof].cls = "FlatRoof"
    /\ last.st = "NotImplementedError"


\* the slope dimension of a host: slope_length of a FlatRoof, slope_height of
\* every other host
SlopeDimension(ref) ==
    IF IsFlatRoof(roofs, subs, ref) THEN Ok(FlatRoof_slope_length(roofs[ref.i]))
    ELSE IF IsSubRoof(ref) THEN SubRoof_slope_height(roofs, subs, subs[ref.i])
    ELSE Ok(Hypot(Roof_roof_height(roofs[ref.i]), Roof_roof_half_span(roofs[ref.i]))
            + Roof_roof_overhang(roofs[ref.i]))

\* C13: for every host and purlin_spacing > 0 the purlin line count is
\* ceil(d / purlin_spacing), d the slope_length of a FlatRoof host and the
\* slope_height of any other; a RoofFrame over a FlatRoof host is constructed
\* and yields this count, and a spacing above d gives 1.
C13_PurlinLinesFromSlopeDimension ==
    /\ (last.op = "purlin_lines_count" /\ last.spacing > 0) =>
          LET d == SlopeDimension(RoofRef(last.roof))
          IN  /\ last.st = "ok"
              /\ (last.v - 1) * last.spacing < d.v /\ d.v <= last.v * last.spacing
              /\ last.spacing > d.v => last.v = 1
    /\ (last.op = "RoofFrame" /\ last.truss_spacing > 0 /\ last.purlin_spacing > 0) =>
          LET d == SlopeDimension(last.host)
              n == last.purlin_lines_count
              spacing == last.frame.purlin_spacing
          IN  d.st = "ok" =>
                /\ last.st = "ok" /\ n.st = "ok"
                /\ (n.v - 1) * spacing < d.v /\ d.v <= n.v * spacing
                /\ spacing > d.v => n.v = 1


\* a face-layout accessor returned a list with at least one purlin
NonEmpty(res) == res.st = "ok" /\ ~res.none /\ Len(res.v) > 0

\* how many of the three face-layout accessors of the last frame are non-empty
NonEmptyFaceLayouts ==
    Cardinality({ a \in {"triangular", "trapezoid", "parallelogram"} :
        \/ a = "triangular" /\ NonEmpty(last.triangular_face_purlins)
        \/ a = "trapezoid" /\ NonEmpty(last.trapezoid_face_purlins)
        \/ a = "parallelogram" /\ NonEmpty(last.parallelogram_face_purlins) })

\* C14 (as stated): for every host type exactly one of triangular_face_purlins,
\* trapezoid_face_purlins and parallelogram_face_purlins of a RoofFrame is
\* non-empty, the other two are empty or absent, and none raises.
C14_ExactlyOneFaceLayout ==
    (last.op = "RoofFrame" /\ last.truss_spacing > 0 /\ last.purlin_spacing > 0) =>
        /\ last.st = "ok"
        /\ NonEmptyFaceLayouts = 1

\* C14 (amended): on every RoofFrame that was constructed none of the three
\* accessors raises, and the non-empty ones are fixed by the host type:
\* triangular and trapezoid on a HipRoof, triangular and parallelogram on a
\* HipSubRoof, parallelogram alone on a GableSubRoof, none on a GableRoof.
C14_FaceLayoutsByHostType ==
    (last.op = "RoofFrame" /\ last.st = "ok") =>
        LET cls == ClassName(roofs, subs, last.host)
            tri == last.triangular_face_purlins
            trap == last.trapezoid_face_purlins
            par == last.parallelogram_face_purlins
        IN  /\ tri.st = "ok" /\ trap.st = "ok" /\ par.st = "ok"
            /\ cls \in {"HipRoof", "GableRoof", "HipSubRoof", "GableSubRoof"}
            /\ NonEmpty(tri) <=> cls \in {"HipRoof", "HipSubRoof"}
            /\ NonEmpty(trap) <=> cls = "HipRoof"
            /\ NonEmpty(par) <=> cls \in {"HipSubRoof", "GableSubRoof"}
            /\ ~NonEmpty(tri) => tri.none
            /\ ~NonEmpty(trap) => trap.none
            /\ ~NonEmpty(par) => par.none

\* C14 witness: a frame over a HipRoof with purlin levels on both its
\* triangular and its trapezoid faces
C14_HipFrameHasTwoLayouts ==
    /\ last.op = "RoofFrame" /\ last.st = "ok"
    /\ ClassName(roofs, subs, last.host) = "HipRoof"
    /\ Len(last.triangular_face_purlins.v) > 1
    /\ Len(last.trapezoid_face_purlins.v) > 2
    /\ last.parallelogram_face_purlins.none


\* the parameters each variant recognises, and the class each tag names
Recognised(roof_type) ==
    IF roof_type = "HIP" THEN {"roof_overhang", "height_ratio"}
    ELSE IF roof_type = "GABLE" THEN {"side_extension_length", "roof_overhang", "height_ratio"}
    ELSE {"flat_roof_rise", "roof_overhang"}

ClassOfTag(roof_type) ==
    IF roof_type = "HIP" THEN "HipRoof"
    ELSE IF roof_type = "GABLE" THEN "GableRoof" ELSE "FlatRoof"

\* C15: create_roof returns an instance of the variant the tag names, built
\* from the recognised parameters alone: an unrecognised or irrelevant named
\* parameter changes neither the outcome nor the roof and never raises; an
\* unrecognised tag fails with ValueError.
C15_FactoryBuildsNamedVariant ==
    last.op = "create_roof" =>
        LET recognised == Filtered(last.kwargs, Recognised(last.roof_type))
            plain == RoofFactory_create_roof(last.roof_type, last.building_length,
                                             last.building_width, last.unit, recognised)
        IN  /\ last.roof_type \notin RoofTypes => last.st = "ValueError"
            /\ last.roof_type \in RoofTypes =>
                  /\ last.st = plain.st
                  /\ last.st = "ok" => last.v = plain.v
                  /\ (/\ last.building_length > 0 /\ last.building_width > 0
                      /\ \A k \in DOMAIN recognised : recognised[k] > 0) =>
                        /\ last.st = "ok"
                        /\ last.v.cls = ClassOfTag(last.roof_type)


\* C19: roof_area() of every constructed HipRoof never raises and returns the
\* strictly positive (ridge_length + facial_length) * S + 2 * (face_triangle_base * S),
\* with ridge_length = L - W, facial_length = W + 2 O, face_triangle_base = W + O
\* and S the slope height.
C19_HipRoofAreaFormula ==
    (last.op = "roof_area" /\ roofs[last.roof].cls = "HipRoof") =>
        LET r == roofs[last.roof]
            S == Roof_get_roof_diagonal_height(r).v
            ridge_length == r.building_length - r.building_width
            facial_length == r.building_width + 2 * r.roof_overhang
            face_triangle_base == r.building_width + r.roof_overhang
        IN  /\ last.st = "ok"
            /\ last.v > 0
            /\ last.v = (ridge_length + facial_length) * S + 2 * (face_triangle_base * S)


\* C17: construction is all-or-nothing: a construction of a sub-roof that
\* fails changes no entity constructed before it; every sub-roof passed in
\* sub_roofs_attached keeps the parent and the unit it had before the call.
C17_FailedConstructionChangesNothing ==
    [][(last'.op = "NewSubRoof" /\ last'.st # "ok") =>
          /\ roofs' = roofs
          /\ Len(subs') = Len(subs)
          /\ \A j \in DOMAIN subs :
                /\ subs'[j].parent = subs[j].parent
                /\ subs'[j].unit = subs[j].unit
                /\ subs'[j] = subs[j]]_vars


\* the accessors of the host a derived quantity needs
Needs(quantity) ==
    IF quantity = "corner_tiebeam_length" THEN {"roof_half_span"}
    ELSE IF quantity = "hip_rafter_overhang" THEN {"roof_overhang"}
    ELSE IF quantity = "facial_base_length" THEN {"roof_half_span", "roof_overhang"}
    ELSE {"roof_half_span", "roof_overhang", "roof_height"}

\* C18: when the host lacks one of roof_half_span, roof_overhang and
\* roof_height, every derived quantity that needs it fails with a
\* missing-attribute error that names an absent accessor (the absent one when
\* a single needed accessor is absent); when everything a quantity needs is
\* present, all three in particular, it does not fail.
C18_MissingAccessorNamed ==
    last.op = "mixin" =>
        LET absent == Needs(last.quantity) \ last.host.present
        IN  /\ absent = {} => last.st = "ok" /\ last.v >= 0
            /\ absent # {} =>
                  /\ last.st = "AttributeError"
                  /\ last.attr \in absent
            /\ last.host.present = MixinAttrs => last.st = "ok"

\* C18 witness: triangular_facial_area on a host without roof_height
C18_RoofHeightMissing ==
    /\ last.op = "mixin"
    /\ last.quantity = "triangular_facial_area"
    /\ last.host.present = {"roof_half_span", "roof_overhang"}
    /\ last.st = "AttributeError"
    /\ last.attr = "roof_height"


\* the read accessors
ReadOps ==
    {"roof_area", "collective_roof_area", "trusses_count", "purlin_lines_count",
     "iron_sheets_count", "roof_pitch_angle_degrees", "to_dict", "sub_roof", "RoofFrame"}

\* the accessor whose result is in last, called once more in this state,
\* returns the same result
ReadAgain ==
    LET res == [st |-> last.st, v |-> last.v]
    IN  CASE last.op = "roof_area" -> Roof_roof_area(roofs[last.roof]) = res
          [] last.op = "collective_roof_area" ->
                Roof_collective_roof_area(roofs, subs, roofs[last.roof]) = res
          [] last.op = "trusses_count" ->
                Roof_trusses_count(roofs[last.roof], last.spacing) = res
          [] last.op = "purlin_lines_count" ->
                Roof_purlin_lines_count(roofs[last.roof], last.spacing) = res
          [] last.op = "iron_sheets_count" ->
                Roof_iron_sheets_count(roofs[last.roof], last.sheet, last.waste) = res
          [] last.op = "roof_pitch_angle_degrees" ->
                roof_pitch_angle_degrees(roofs, subs, last.host) = res
          [] last.op = "to_dict" -> Roof_to_dict(roofs[last.roof]) = last.v
          [] last.op = "sub_roof" -> SubRoof_accessors(roofs, subs, last.sub) = last.v
          [] last.op = "RoofFrame" ->
                last.st = "ok" =>
                   /\ RoofFrame_post_init(roofs, subs, last.host, last.truss_spacing,
                                          last.purlin_spacing, last.unit).v = last.frame
                   /\ RoofFrame_main_trusses_count(roofs, subs, last.frame)
                         = last.main_trusses_count
                   /\ PurlinMixin_purlin_lines_count(roofs, subs, last.frame)
                         = last.purlin_lines_count
                   /\ RoofFrame_to_dict(roofs, subs, last.frame) = last.to_dict
          [] OTHER -> TRUE

RECURSIVE RootOf(_)
\* the ultimate root of a host: the roof its chain of parents ends in, or
\* NoneRef when the chain ends in no parent
RootOf(ref) == IF ref.k = "sub" THEN RootOf(subs[ref.i].parent) ELSE ref

\* C20: the effective pitch of every sub-roof, at any depth, is the
\* roof_pitch_angle_degrees of its ultimate root Roof now: it is read through
\* the chain of parents and never stored, so what a sub-roof or a frame over
\* it holds as its pitch is the root's pitch of this moment.
C20_PitchReadLiveFromRoot ==
    /\ \A j \in DOMAIN subs :
          LET root == RootOf(SubRef(j))
          IN  root.k = "roof" =>
                LET angle == Roof_roof_pitch_angle_degrees(roofs[root.i])
                IN  /\ roof_pitch_angle_degrees(roofs, subs, SubRef(j)) = Ok(angle)
                    /\ SubRoof_pitch_rise_run(roofs, subs, subs[j]) = Ok(TanMilli(angle))
                    /\ subs[j].roof_pitch_ratio = TanMilli(angle)
    /\ (last.op = "RoofFrame" /\ last.st = "ok" /\ last.host.k = "sub") =>
          LET root == RootOf(last.host)
          IN  last.frame.pitch = TanMilli(Roof_roof_pitch_angle_degrees(roofs[root.i]))


\* C21: a SubRoof can be constructed standalone, before any parent exists;
\* once a Roof is constructed with it in sub_roofs_attached, every sub-roof
\* of that list has the Roof as parent and the Roof's unit; a child listed in
\* a SubRoof's sub_roofs_attached has that SubRoof as parent.
C21_SubRoofLifecycle ==
    /\ ( /\ last.op = "NewSubRoof"
         /\ last.parent = NoneRef
         /\ last.section_length > 0
         /\ last.width > 0 ) => last.st = "ok"
    /\ \A i \in DOMAIN roofs : \A j \in Range(roofs[i].sub_roofs_attached) :
          /\ subs[j].parent = RoofRef(i)
          /\ subs[j].unit = roofs[i].unit
    /\ \A j \in DOMAIN subs : \A c \in Range(subs[j].sub_roofs_attached) :
          subs[c].parent = SubRef(j)


\* C22: on a hip-shaped host the jack runs are the multiples n * truss_spacing,
\* n = 1, 2, ..., strictly below half_span, in increasing order (none when
\* truss_spacing >= half_span; a multiple equal to half_span is left out);
\* the jack-rafter and the jack tie-beam lists have one entry per run; on a
\* gable-shaped host both lists are absent.
C22_JackRunsBelowHalfSpan ==
    (last.op = "RoofFrame" /\ last.st = "ok" /\ last.to_dict.st = "ok") =>
        LET f == last.frame
            runs == JackRafterMixin_jack_runs(f)
            rafters == last.to_dict.v.jack_rafter_lengths
            tiebeams == last.to_dict.v.jack_tiebeams_lengths
        IN  IF f.is_gable
            THEN rafters.none /\ tiebeams.none
            ELSE /\ \A k \in DOMAIN runs : runs[k] = k * f.truss_spacing
                 /\ \A k \in DOMAIN runs : runs[k] < f.half_span
                 /\ (Len(runs) + 1) * f.truss_spacing >= f.half_span
                 /\ f.truss_spacing >= f.half_span => runs = << >>
                 /\ ~rafters.none /\ ~tiebeams.none
                 /\ Len(rafters.v) = Len(runs) /\ Len(tiebeams.v) = Len(runs)
                 /\ \A k \in DOMAIN runs :
                       rafters.v[k] >= runs[k] /\ tiebeams.v[k] <= runs[k]

\* C22 witness: a hip frame whose half_span is three truss spacings: two
\* jack runs, the third multiple left out
C22_MultipleAtHalfSpanLeftOut ==
    /\ last.op = "RoofFrame" /\ last.st = "ok"
    /\ ~last.frame.is_gable
    /\ last.frame.half_span = 3 * last.frame.truss_spacing
    /\ Len(last.to_dict.v.jack_rafter_lengths.v) = 2
    /\ Len(last.to_dict.v.jack_tiebeams_lengths.v) = 2


\* C23: on a HipRoof host trapezoid_face_purlins starts with
\* bottom_base = length + 2 * overhang, holds for each height k * purlin_spacing
\* (k = 1, 2, ...) strictly below slope_height the interpolation
\* bottom_base - (bottom_base - top_base) * height / slope_height, and ends
\* with the exact top_base = ridge_length, aligned steps or not; it is absent
\* on gable-shaped and sub-roof hosts.
C23_TrapezoidLevels ==
    (last.op = "RoofFrame" /\ last.st = "ok") =>
        LET f == last.frame
            trap == last.trapezoid_face_purlins
        IN  IF ClassName(roofs, subs, last.host) # "HipRoof"
            THEN trap.st = "ok" /\ trap.none
            ELSE LET r == roofs[last.host.i]
                     bottom_base == r.building_length + 2 * r.roof_overhang
                     top_base == r.building_length - r.building_width
                     n == Len(trap.v) - 2
                 IN  /\ trap.st = "ok" /\ ~trap.none
                     /\ n >= 0
                     /\ trap.v[1] = bottom_base
                     /\ trap.v[n + 2] = top_base
                     /\ n * f.purlin_spacing < f.slope_height \/ n = 0
                     /\ (n + 1) * f.purlin_spacing >= f.slope_height
                     /\ \A k \in 1..n :
                           LET drop == bottom_base - trap.v[k + 1]
                               height == k * f.purlin_spacing
                           IN  /\ drop * f.slope_height <= (bottom_base - top_base) * height
                               /\ (bottom_base - top_base) * height < (drop + 1) * f.slope_height

\* C23 witness: a HipRoof frame whose slope_height is a whole number of
\* purlin spacings, with levels in between and top_base at the end
C23_AlignedStepsEndAtTopBase ==
    /\ last.op = "RoofFrame" /\ last.st = "ok"
    /\ ClassName(roofs, subs, last.host) = "HipRoof"
    /\ last.frame.slope_height = 7 * last.frame.purlin_spacing
    /\ Len(last.trapezoid_face_purlins.v) = 8
    /\ last.trapezoid_face_purlins.v[8]
          = roofs[last.host.i].building_length - roofs[last.host.i].building_width


\* the levels of a triangular face stepped up to the height h: the base
\* 2 * (half_span + overhang), then base * (1 - k * purlin_spacing / h) for
\* every k * purlin_spacing strictly below h
TriangularLevelsUpTo(levels, f, h) ==
    LET base == 2 * (f.half_span + f.overhang)
        n == Len(levels) - 1
    IN  /\ n >= 0
        /\ levels[1] = base
        /\ n * f.purlin_spacing < h \/ n = 0
        /\ (n + 1) * f.purlin_spacing >= h
        /\ \A k \in 1..n :
              /\ levels[k + 1] * h <= base * (h - k * f.purlin_spacing)
              /\ base * (h - k * f.purlin_spacing) < (levels[k + 1] + 1) * h

\* C24 (as stated): on a hip-ended host triangular_face_purlins starts with
\* the base 2 * (half_span + overhang) and holds base * (1 - height / h) for
\* each height k * purlin_spacing strictly below the full rise h of the roof;
\* every level is strictly positive and the levels strictly decrease; the
\* result is absent on gable-shaped hosts.
C24_TriangularLevelsBelowRise ==
    (last.op = "RoofFrame" /\ last.st = "ok") =>
        LET f == last.frame
            tri == last.triangular_face_purlins
        IN  IF f.is_gable THEN tri.none
            ELSE /\ ~tri.none
                 /\ TriangularLevelsUpTo(tri.v, f, f.rise)
                 /\ \A k \in DOMAIN tri.v : tri.v[k] > 0
                 /\ \A k \in 1..(Len(tri.v) - 1) : tri.v[k + 1] < tri.v[k]

\* C24 (amended): the height h the levels are stepped up to and interpolated
\* over is the slope height of the host, not its rise; each level is the
\* interpolation rounded, never negative and never above the level before it.
C24_TriangularLevelsBelowSlopeHeight ==
    (last.op = "RoofFrame" /\ last.st = "ok") =>
        LET f == last.frame
            tri == last.triangular_face_purlins
        IN  IF f.is_gable THEN tri.st = "ok" /\ tri.none
            ELSE /\ tri.st = "ok" /\ ~tri.none
                 /\ TriangularLevelsUpTo(tri.v, f, f.slope_height)
                 /\ \A k \in DOMAIN tri.v : tri.v[k] >= 0
                 /\ \A k \in 1..(Len(tri.v) - 1) : tri.v[k + 1] <= tri.v[k]

\* C24 witness: a hip frame with purlin levels at and above the rise of the roof
C24_LevelsAboveRise ==
    /\ last.op = "RoofFrame" /\ last.st = "ok"
    /\ ~last.frame.is_gable
    /\ Len(last.triangular_face_purlins.v) >= 3
    /\ (Len(last.triangular_face_purlins.v) - 1) * last.frame.purlin_spacing
          >= last.frame.rise


\* C25: collective_roof_area() of a Roof with any non-cyclic tree of attached
\* sub-roofs counts the own sloped area 2 * slope_height * section_length of
\* each sub-roof exactly once, whatever its depth: the total is the roof's own
\* area plus every section's own area, none left out and none twice.
C25_EachSectionCountedOnce ==
    ( /\ last.op = "collective_roof_area"
      /\ \A d \in AllBelow(last.roof) : SubRoof_main_area(roofs, subs, subs[d]).st = "ok" )
    => /\ last.st = "ok"
       /\ last.v - Roof_roof_area(roofs[last.roof]).v
             = SumFn([d \in AllBelow(last.roof) |->
                         2 * SubRoof_slope_height(roofs, subs, subs[d]).v
                           * subs[d].section_length],
                     AllBelow(last.roof))


C27_ValidatedCoverHasPositiveArea ==
    (last.op = "NewSheetCover" /\ last.st = "ok") =>
        /\ last.sheet.length - last.overup.left_right_overup > 0
        /\ last.sheet.width - last.overup.top_bottom_overup > 0
        /\ last.v > 0

\* C28: the ridge length building_length - building_width of every constructed
\* HipRoof is non-negative, and so are the top base and every level of the
\* trapezoid purlin layout of a frame over it.
C28_RidgeNeverNegative ==
    /\ \A i \in DOMAIN roofs :
          roofs[i].cls = "HipRoof" => Roof_ridge_length(roofs[i]) >= 0
    /\ ( /\ last.op = "RoofFrame" /\ last.st = "ok"
         /\ NonEmpty(last.trapezoid_face_purlins) )
       => \A k \in DOMAIN last.trapezoid_face_purlins.v :
             last.trapezoid_face_purlins.v[k] >= 0

\* the layout part of C28 alone: the levels of a frame over a constructed roof
C28_TrapezoidLevelsNeverNegative ==
    ( /\ last.op = "RoofFrame" /\ last.st = "ok"
      /\ NonEmpty(last.trapezoid_face_purlins) )
    => \A k \in 1..(Len(last.trapezoid_face_purlins.v) - 1) :
          last.trapezoid_face_purlins.v[k] >= 0

====
